---------------------------- MODULE Spec2Model ----------------------------
(***************************************************************************)
(* The polling loop of src/main.py: fetch a bar window, compute the key    *)
(* level band, detect turtle-soup signals in both directions and place one *)
(* market order per signal.                                                *)
(*                                                                         *)
(* Prices are integers counting hundredths of a price unit (0.01), so that *)
(* FIXED_MIN_STOP_DISTANCE = 100 * 0.01 is 100.  Bar prices are drawn from *)
(* even numbers, which makes the midpoint (high + low) / 2 exact.          *)
(* A Python None is the record None; a float NaN is the value NaN, with    *)
(* which every ordering comparison is false.                               *)
(***************************************************************************)
EXTENDS Integers, Sequences, FiniteSets

VARIABLES
    pc,            \* position of main(): connect, fetch, buy, sell, sleep, terminated
    exc,           \* the exception that ended the process ("" when none)
    config,        \* STOP_LOSS_PIPS and TAKE_PROFIT_PIPS of the config module
    rates,         \* what mt5.copy_rates_from_pos returned to the running cycle
    data,          \* the DataFrame of the running cycle: a sequence of bars
    band,          \* recent_high, recent_low, key_level of the running cycle
    buy_signals,   \* main(): buy_signals
    sell_signals,  \* main(): sell_signals
    i,             \* position of the running for-loop in its signal list
    last,          \* the running cycle's latest place_order call: inputs, venue answers, outcome
    submitted,     \* order_send calls made in the running cycle
    unavailable,   \* place_order calls of the running cycle that found symbol_info None
    traded         \* bar times for which the venue has received an order in this run

vars == <<pc, exc, config, rates, data, band, buy_signals, sell_signals, i,
          last, submitted, unavailable, traded>>

(***************************************************************************)
(* Bounds and input domains.                                               *)
(***************************************************************************)
\* The longest bar window the venue returns (main asks for 100 bars).
MaxLen == 3

\* Bar prices: those of the venue in the polling loop, and the wider set the
\* detector and the key level calculator are checked on by themselves.
VenuePrices == {2000, 2002}
Prices == {2000, 2002, 2004}

FIXED_MIN_STOP_DISTANCE == 100

NaN == -1

None == [kind |-> "None"]

\* A name main has not bound yet.
Unset == [kind |-> "Unset"]

\* OHLC bars with low <= close <= high (open and volume are never read).
BarShapes(prices) ==
    {b \in [high : prices, low : prices, close : prices] :
        b.low <= b.close /\ b.close <= b.high}

\* Windows of n bars in ascending time order; a bar's time is its position
\* in the venue's window, which does not slide during a run.
WindowsOfLen(prices, n) ==
    {[k \in 1..n |-> [time |-> k - 1, high |-> w[k].high,
                      low |-> w[k].low, close |-> w[k].close]] :
        w \in [1..n -> BarShapes(prices)]}

Windows(prices) == UNION {WindowsOfLen(prices, n) : n \in 0..MaxLen}

\* copy_rates_from_pos: an array of bars.
Rates == {[kind |-> "Rates", bars |-> w] : w \in Windows(VenuePrices)}

\* symbol_info: point > 0 and trade_stops_level >= 0.
SymbolInfos ==
    {[kind |-> "SymbolInfo", point |-> p, trade_stops_level |-> l] :
        p \in {1, 10}, l \in {0, 10}}

\* symbol_info_tick: ask and bid.
Ticks ==
    {[kind |-> "Tick", ask |-> 2004, bid |-> 2002],
     [kind |-> "Tick", ask |-> 2002, bid |-> 2000]}

TRADE_RETCODE_DONE == "DONE"
TRADE_RETCODE_REJECT == "REJECT"

\* order_send results.
Results ==
    {[kind |-> "OrderSendResult", retcode |-> r] :
        r \in {TRADE_RETCODE_DONE, TRADE_RETCODE_REJECT}}

\* STOP_LOSS_PIPS, TAKE_PROFIT_PIPS.
Configs ==
    {[STOP_LOSS_PIPS |-> 30, TAKE_PROFIT_PIPS |-> 700],
     [STOP_LOSS_PIPS |-> 700, TAKE_PROFIT_PIPS |-> 30]}

(***************************************************************************)
(* Float comparisons: false as soon as one side is NaN.                    *)
(***************************************************************************)
FLess(a, b) == a # NaN /\ b # NaN /\ a < b

(***************************************************************************)
(* find_key_levels                                                         *)
(***************************************************************************)
RECURSIVE SeriesMax(_, _)
SeriesMax(data_, col) ==
    IF Len(data_) = 0 THEN NaN
    ELSE LET rest == SeriesMax(Tail(data_), col)
             x == IF col = "high" THEN Head(data_).high ELSE Head(data_).low
         IN IF rest = NaN \/ x > rest THEN x ELSE rest

RECURSIVE SeriesMin(_, _)
SeriesMin(data_, col) ==
    IF Len(data_) = 0 THEN NaN
    ELSE LET rest == SeriesMin(Tail(data_), col)
             x == IF col = "high" THEN Head(data_).high ELSE Head(data_).low
         IN IF rest = NaN \/ x < rest THEN x ELSE rest

MidPoint(recent_high, recent_low) ==
    IF recent_high = NaN \/ recent_low = NaN THEN NaN
    ELSE (recent_high + recent_low) \div 2

\* find_key_levels reading the low from the 'high' column.
find_key_levels_WrongColumn(data_) ==
    LET recent_high == SeriesMax(data_, "high")
        recent_low == SeriesMin(data_, "high")
    IN [recent_high |-> recent_high, recent_low |-> recent_low,
        key_level |-> MidPoint(recent_high, recent_low)]

find_key_levels(data_) ==
    LET recent_high == SeriesMax(data_, "high")
        recent_low == SeriesMin(data_, "low")
    IN [recent_high |-> recent_high, recent_low |-> recent_low,
        key_level |-> MidPoint(recent_high, recent_low)]

(***************************************************************************)
(* turtle_soup_signal: the loop over range(1, len(data)); position k of    *)
(* the sequence is Python index k - 1.                                     *)
(***************************************************************************)
BuyRule(bar, key_level) ==
    FLess(bar.low, key_level) /\ FLess(key_level, bar.close)

\* The sell rule without its test of the close.
SellRule_NoClose(bar, key_level) ==
    FLess(key_level, bar.high)

SellRule(bar, key_level) ==
    FLess(key_level, bar.high) /\ FLess(bar.close, key_level)

RECURSIVE SignalLoop(_, _, _, _, _)
SignalLoop(data_, key_level, direction, k, signals) ==
    IF k > Len(data_) THEN signals
    ELSE LET s1 == IF direction = "buy" /\ BuyRule(data_[k], key_level)
                   THEN Append(signals, [time |-> data_[k].time, type |-> "buy",
                                         price |-> data_[k].close])
                   ELSE signals
             s2 == IF direction = "sell" /\ SellRule(data_[k], key_level)
                   THEN Append(s1, [time |-> data_[k].time, type |-> "sell",
                                    price |-> data_[k].close])
                   ELSE s1
         IN SignalLoop(data_, key_level, direction, k + 1, s2)

\* turtle_soup_signal scanning from range(0, len(data)).
turtle_soup_signal_FromFirstBar(data_, key_level, direction) ==
    SignalLoop(data_, key_level, direction, 1, <<>>)

turtle_soup_signal(data_, key_level, direction) ==
    SignalLoop(data_, key_level, direction, 2, <<>>)

(***************************************************************************)
(* place_order                                                             *)
(***************************************************************************)
Max2(a, b) == IF a >= b THEN a ELSE b

MinStopDistance(symbol_info) ==
    LET min_stop_distance == symbol_info.trade_stops_level * symbol_info.point
    IN IF min_stop_distance = 0 THEN FIXED_MIN_STOP_DISTANCE ELSE min_stop_distance

\* The stop distance floored at the bare minimum, without the buffer.
StopDistance_NoBuffer(pips, point, min_stop_distance) ==
    Max2(pips * point, min_stop_distance)

StopDistance(pips, point, min_stop_distance) ==
    LET buffer == 5 * min_stop_distance
    IN Max2(pips * point, min_stop_distance + buffer)

CurrentPrice(order_type, tick) ==
    IF order_type = "buy" THEN tick.ask ELSE tick.bid

\* The request with the buy signs in both directions.
BuildRequest_BuySigns(order_type, current_price, stop_loss_distance, take_profit_distance) ==
    [kind |-> "Request", type |-> order_type, price |-> current_price,
     sl |-> current_price - stop_loss_distance,
     tp |-> current_price + take_profit_distance]

BuildRequest(order_type, current_price, stop_loss_distance, take_profit_distance) ==
    IF order_type = "buy"
    THEN [kind |-> "Request", type |-> order_type, price |-> current_price,
          sl |-> current_price - stop_loss_distance,
          tp |-> current_price + take_profit_distance]
    ELSE [kind |-> "Request", type |-> order_type, price |-> current_price,
          sl |-> current_price + stop_loss_distance,
          tp |-> current_price - take_profit_distance]

\* The outcome of one call is a record: the exception raised ("" when none),
\* the value returned, whether the tick was queried, the request sent (None
\* when none was) and the number of order_send calls.

\* order_send answered by a retry when the venue rejects the order.
Dispatch_Retry(request, result) ==
    IF result = None
    THEN [raised |-> "AttributeError", ret |-> None, tick_queried |-> TRUE,
          request |-> request, sends |-> 1]
    ELSE [raised |-> "", ret |-> result, tick_queried |-> TRUE,
          request |-> request,
          sends |-> IF result.retcode # TRADE_RETCODE_DONE THEN 2 ELSE 1]

\* order_send and the classification of its result: result.retcode of a None
\* result raises AttributeError.
Dispatch(request, result) ==
    IF result = None
    THEN [raised |-> "AttributeError", ret |-> None, tick_queried |-> TRUE,
          request |-> request, sends |-> 1]
    ELSE [raised |-> "", ret |-> result, tick_queried |-> TRUE,
          request |-> request, sends |-> 1]

\* place_order reading the tick before it tests symbol_info.
place_order_TickFirst(order_type, stop_loss_pips, take_profit_pips, symbol_info, tick, result) ==
    IF tick = None
    THEN [raised |-> "AttributeError", ret |-> None, tick_queried |-> TRUE,
          request |-> None, sends |-> 0]
    ELSE IF symbol_info = None
    THEN [raised |-> "", ret |-> None, tick_queried |-> TRUE,
          request |-> None, sends |-> 0]
    ELSE LET current_price == CurrentPrice(order_type, tick)
             point == symbol_info.point
             min_stop_distance == MinStopDistance(symbol_info)
         IN Dispatch(BuildRequest(order_type, current_price,
                         StopDistance(stop_loss_pips, point, min_stop_distance),
                         StopDistance(take_profit_pips, point, min_stop_distance)),
                     result)

\* symbol_info, symbol_info_tick and order_send answer symbol_info, tick and
\* result; .ask or .bid of a None tick raises AttributeError.
place_order(order_type, stop_loss_pips, take_profit_pips, symbol_info, tick, result) ==
    IF symbol_info = None
    THEN [raised |-> "", ret |-> None, tick_queried |-> FALSE,
          request |-> None, sends |-> 0]
    ELSE IF tick = None
    THEN [raised |-> "AttributeError", ret |-> None, tick_queried |-> TRUE,
          request |-> None, sends |-> 0]
    ELSE LET current_price == CurrentPrice(order_type, tick)
             point == symbol_info.point
             min_stop_distance == MinStopDistance(symbol_info)
         IN Dispatch(BuildRequest(order_type, current_price,
                         StopDistance(stop_loss_pips, point, min_stop_distance),
                         StopDistance(take_profit_pips, point, min_stop_distance)),
                     result)

(***************************************************************************)
(* main                                                                    *)
(***************************************************************************)
NoCall == [called |-> FALSE]

Init ==
    /\ pc = "connect"
    /\ exc = ""
    /\ config \in Configs
    /\ rates = Unset
    /\ data = <<>>
    /\ band = Unset
    /\ buy_signals = <<>>
    /\ sell_signals = <<>>
    /\ i = 1
    /\ last = NoCall
    /\ submitted = 0
    /\ unavailable = 0
    /\ traded = {}

\* connect_to_mt5: main returns when it fails.
Connect ==
    /\ pc = "connect"
    /\ \E ok \in BOOLEAN : pc' = IF ok THEN "fetch" ELSE "terminated"
    /\ UNCHANGED <<exc, config, rates, data, band, buy_signals, sell_signals, i,
                   last, submitted, unavailable, traded>>

\* The head of a cycle, up to the first for-loop.  get_data: pd.DataFrame(None)
\* has no 'time' column and data['time'] raises KeyError; an array of bars (an
\* empty one too) becomes the frame.  Then find_key_levels and the two
\* turtle_soup_signal calls.
GetData ==
    /\ pc = "fetch"
    /\ \E r \in {None} \cup Rates :
        /\ rates' = r
        /\ IF r = None
           THEN /\ pc' = "terminated"
                /\ exc' = "KeyError"
                /\ UNCHANGED <<data, band, buy_signals, sell_signals>>
           ELSE /\ pc' = "buy"
                /\ exc' = exc
                /\ data' = r.bars
                /\ band' = find_key_levels(data')
                /\ buy_signals' = turtle_soup_signal(data', band'.key_level, "buy")
                /\ sell_signals' = turtle_soup_signal(data', band'.key_level, "sell")
    /\ i' = 1
    /\ UNCHANGED <<config, last, submitted, unavailable, traded>>

\* A for-loop that keeps a record of the bars it has traded and skips them.
CallPlaceOrder_SkipTraded(order_type, signal) ==
    IF signal.time \in traded
    THEN /\ i' = i + 1
         /\ UNCHANGED <<pc, exc, config, rates, data, band, buy_signals,
                        sell_signals, last, submitted, unavailable, traded>>
    ELSE \E symbol_info \in {None} \cup SymbolInfos,
            tick \in {None} \cup Ticks,
            result \in {None} \cup Results :
             LET out == place_order(order_type, config.STOP_LOSS_PIPS,
                                    config.TAKE_PROFIT_PIPS, symbol_info, tick, result)
             IN /\ last' = [called |-> TRUE, order_type |-> order_type,
                            signal |-> signal, retraded |-> FALSE,
                            symbol_info |-> symbol_info,
                            tick |-> IF out.tick_queried THEN tick ELSE None,
                            out |-> out]
                /\ submitted' = submitted + out.sends
                /\ unavailable' = unavailable + (IF symbol_info = None THEN 1 ELSE 0)
                /\ traded' = IF out.sends > 0 THEN traded \cup {signal.time} ELSE traded
                /\ IF out.raised # ""
                   THEN /\ pc' = "terminated"
                        /\ exc' = out.raised
                        /\ i' = i
                   ELSE /\ pc' = pc
                        /\ exc' = exc
                        /\ i' = i + 1
                /\ UNCHANGED <<config, rates, data, band, buy_signals, sell_signals>>

\* One iteration of a for-loop of main: the place_order call for signal, with
\* the venue's three answers.  An exception leaves main, which has no handler.
\* last.retraded tells whether the venue had already received an order for
\* the signal's bar.
CallPlaceOrder(order_type, signal) ==
    \E symbol_info \in {None} \cup SymbolInfos,
       tick \in {None} \cup Ticks,
       result \in {None} \cup Results :
        LET out == place_order(order_type, config.STOP_LOSS_PIPS,
                               config.TAKE_PROFIT_PIPS, symbol_info, tick, result)
        IN /\ last' = [called |-> TRUE, order_type |-> order_type,
                       signal |-> signal, retraded |-> signal.time \in traded,
                       symbol_info |-> symbol_info,
                       tick |-> IF out.tick_queried THEN tick ELSE None,
                       out |-> out]
           /\ submitted' = submitted + out.sends
           /\ unavailable' = unavailable + (IF symbol_info = None THEN 1 ELSE 0)
           /\ traded' = IF out.sends > 0 THEN traded \cup {signal.time} ELSE traded
           /\ IF out.raised # ""
              THEN /\ pc' = "terminated"
                   /\ exc' = out.raised
                   /\ i' = i
              ELSE /\ pc' = pc
                   /\ exc' = exc
                   /\ i' = i + 1
           /\ UNCHANGED <<config, rates, data, band, buy_signals, sell_signals>>

BuyOrder ==
    /\ pc = "buy"
    /\ i <= Len(buy_signals)
    /\ CallPlaceOrder("buy", buy_signals[i])

BuyDone ==
    /\ pc = "buy"
    /\ i > Len(buy_signals)
    /\ pc' = "sell"
    /\ i' = 1
    /\ UNCHANGED <<exc, config, rates, data, band, buy_signals, sell_signals,
                   last, submitted, unavailable, traded>>

SellOrder ==
    /\ pc = "sell"
    /\ i <= Len(sell_signals)
    /\ CallPlaceOrder("sell", sell_signals[i])

SellDone ==
    /\ pc = "sell"
    /\ i > Len(sell_signals)
    /\ pc' = "sleep"
    /\ UNCHANGED <<exc, config, rates, data, band, buy_signals, sell_signals, i,
                   last, submitted, unavailable, traded>>

\* time.sleep(CHECK_INTERVAL), then the next iteration of while True.  The
\* cycle's window, band and signals are dead from here on: the next iteration
\* rebinds each of them before it reads it, so they are cleared with the
\* cycle's bookkeeping.
Sleep ==
    /\ pc = "sleep"
    /\ pc' = "fetch"
    /\ rates' = Unset
    /\ data' = <<>>
    /\ band' = Unset
    /\ buy_signals' = <<>>
    /\ sell_signals' = <<>>
    /\ i' = 1
    /\ last' = NoCall
    /\ submitted' = 0
    /\ unavailable' = 0
    /\ UNCHANGED <<exc, config, traded>>

Next ==
    \/ Connect
    \/ GetData
    \/ BuyOrder
    \/ BuyDone
    \/ SellOrder
    \/ SellDone
    \/ Sleep

Spec == Init /\ [][Next]_vars

(***************************************************************************)
(* The key level calculator and the detector by themselves, on every       *)
(* window over Prices: lines 172 to 179 of main applied to a window, and   *)
(* then to the next one.                                                   *)
(***************************************************************************)
InitDetect ==
    /\ pc = "window"
    /\ exc = ""
    /\ config \in Configs
    /\ rates = Unset
    /\ data \in Windows(Prices)
    /\ band = Unset
    /\ buy_signals = <<>>
    /\ sell_signals = <<>>
    /\ i = 1
    /\ last = NoCall
    /\ submitted = 0
    /\ unavailable = 0
    /\ traded = {}

DetectSignals ==
    /\ pc = "window"
    /\ band' = find_key_levels(data)
    /\ buy_signals' = turtle_soup_signal(data, band'.key_level, "buy")
    /\ sell_signals' = turtle_soup_signal(data, band'.key_level, "sell")
    /\ pc' = "detected"
    /\ UNCHANGED <<exc, config, rates, data, i, last, submitted, unavailable, traded>>

\* The venue's window moves on by one bar: the oldest bar of a full window
\* leaves, a new bar arrives.
NextWindow ==
    /\ pc = "detected"
    /\ \E b \in BarShapes(Prices) :
        LET kept == IF Len(data) >= MaxLen THEN Tail(data) ELSE data
            w == Append(kept, b)
        IN data' = [k \in 1..Len(w) |-> [time |-> k - 1, high |-> w[k].high,
                                         low |-> w[k].low, close |-> w[k].close]]
    /\ band' = Unset
    /\ buy_signals' = <<>>
    /\ sell_signals' = <<>>
    /\ pc' = "window"
    /\ UNCHANGED <<exc, config, rates, i, last, submitted, unavailable, traded>>

NextDetect ==
    \/ DetectSignals
    \/ NextWindow

SpecDetect == InitDetect /\ [][NextDetect]_vars /\ WF_vars(NextDetect)

(***************************************************************************)
(* Properties.                                                             *)
(***************************************************************************)
\* An order has been sent to the venue by the latest place_order call.
OrderSent == last.called /\ last.out.request # None

\* The distances of the request sent, read back from its prices.
SentStopLossDistance ==
    IF last.out.request.type = "buy"
    THEN last.out.request.price - last.out.request.sl
    ELSE last.out.request.sl - last.out.request.price

SentTakeProfitDistance ==
    IF last.out.request.type = "buy"
    THEN last.out.request.tp - last.out.request.price
    ELSE last.out.request.price - last.out.request.tp

\* The effective minimum stop distance of the symbol_info the call was given.
EffectiveMin ==
    IF last.symbol_info.trade_stops_level * last.symbol_info.point = 0
    THEN 100
    ELSE last.symbol_info.trade_stops_level * last.symbol_info.point

\* C1: every order sent has stop-loss and take-profit distances of at least
\* min_stop_distance + 5 * min_stop_distance, min_stop_distance being the
\* broker's minimum or, when that is 0, the fixed fallback.
C1_DistancesRespectFloor ==
    OrderSent =>
        /\ SentStopLossDistance >= EffectiveMin + 5 * EffectiveMin
        /\ SentTakeProfitDistance >= EffectiveMin + 5 * EffectiveMin

\* Scenario B: the broker reports 0, the requested stop loss is 0.3 in price
\* units, and the order goes out with the floor of 6.0.
C1_Witness ==
    /\ OrderSent
    /\ last.symbol_info.trade_stops_level = 0
    /\ config.STOP_LOSS_PIPS * last.symbol_info.point = 30
    /\ SentStopLossDistance = 600
    /\ SentTakeProfitDistance = 700

\* The venue answered None to symbol_info_tick in the latest place_order call.
TickFailed == last.called /\ last.out.tick_queried /\ last.tick = None

\* C2: when the price query fails in the middle of a cycle the cycle is
\* aborted with no further order and the process lives on to the next poll.
C2_TickFailureEndsCycleOnly ==
    TickFailed => (pc = "sleep" /\ exc = "")

\* A step in which a place_order call of a for-loop returns.
CallReturns == pc \in {"buy", "sell"} /\ i' = i + 1

\* C3: a place_order call that finds symbol_info None returns without
\* querying the tick and without sending an order, and the for-loop moves on
\* to its next signal.
C3_NoInfoShortCircuits ==
    [][(pc \in {"buy", "sell"} /\ last' # last /\ last'.called
            /\ last'.symbol_info = None)
        => (/\ ~last'.out.tick_queried
            /\ last'.out.request = None
            /\ submitted' = submitted
            /\ traded' = traded
            /\ pc' = pc
            /\ exc' = exc
            /\ i' = i + 1)]_vars

\* After a signal whose symbol_info was None, a later signal of the same
\* cycle has had its own order sent.
C3_Witness ==
    /\ unavailable >= 1
    /\ last.called
    /\ last.symbol_info # None
    /\ last.out.sends = 1

\* C4: each signal a for-loop has passed caused one order_send call, or none
\* when its symbol_info was None; no call sends twice; a cycle that reaches
\* its sleep has sent one order per buy signal and per sell signal for which
\* symbol_info was there.
C4_OneSubmissionPerSignal ==
    /\ last.called => last.out.sends <= 1
    /\ pc = "buy" => submitted + unavailable = i - 1
    /\ pc = "sell" => submitted + unavailable = Len(buy_signals) + i - 1
    /\ pc = "sleep" =>
           submitted + unavailable = Len(buy_signals) + Len(sell_signals)

\* A cycle with a buy and a sell signal ends with two orders sent, the last
\* of them rejected.
C4_Witness ==
    /\ pc = "sleep"
    /\ Len(buy_signals) >= 1
    /\ Len(sell_signals) >= 1
    /\ unavailable = 0
    /\ submitted = Len(buy_signals) + Len(sell_signals)
    /\ last.out.ret.retcode = TRADE_RETCODE_REJECT

\* The signals are those of the bars of the window after its first that
\* satisfy ok, one each, in window order, priced at the close.
ExactlyTheBars(signals, type, ok(_)) ==
    /\ \A k \in 2..Len(data) :
           ok(data[k]) <=> \E j \in 1..Len(signals) : signals[j].time = data[k].time
    /\ \A j \in 1..Len(signals) :
           /\ signals[j].type = type
           /\ \E k \in 2..Len(data) :
                  /\ signals[j].time = data[k].time
                  /\ signals[j].price = data[k].close
    /\ \A j1, j2 \in 1..Len(signals) :
           j1 < j2 => signals[j1].time < signals[j2].time

BuyQualifies(bar) == bar.low < band.key_level /\ bar.close > band.key_level

SellQualifies(bar) == bar.high > band.key_level /\ bar.close < band.key_level

\* C5: the detector returns exactly the bars at index 1 and later that
\* satisfy the direction's rule, one signal each, in window order, priced at
\* the bar's close; never the bar at index 0.
C5_DetectorOutput ==
    pc = "detected" =>
        /\ ExactlyTheBars(buy_signals, "buy", BuyQualifies)
        /\ ExactlyTheBars(sell_signals, "sell", SellQualifies)

\* The first bar satisfies the buy rule and is left out, and two later bars
\* are signalled.
C5_Witness ==
    /\ pc = "detected"
    /\ Len(data) >= 3
    /\ BuyQualifies(data[1])
    /\ Len(buy_signals) = 2
    /\ \A j \in 1..Len(buy_signals) : buy_signals[j].time # data[1].time

\* A bar signalled in both directions.
SameBarBothDirections ==
    \E j1 \in 1..Len(buy_signals), j2 \in 1..Len(sell_signals) :
        buy_signals[j1].time = sell_signals[j2].time

\* C6 as stated: some window has a bar that is signalled both as a buy and
\* as a sell.
C6_SomeBarBothDirections == <>SameBarBothDirections

\* C6 amended: no bar is signalled in both directions against one window and
\* key level.
C6_NoBarBothDirections == ~SameBarBothDirections

\* A bar whose range holds the key level strictly inside, in a window that
\* yields a buy signal and a sell signal (for different bars).
C6_Witness ==
    /\ pc = "detected"
    /\ Len(buy_signals) >= 1
    /\ Len(sell_signals) >= 1
    /\ \E k \in 2..Len(data) :
           /\ data[k].low < band.key_level
           /\ data[k].high > band.key_level
           /\ data[k].close # band.key_level

\* The venue returned no bars to the running cycle: None, or an array of
\* zero bars.
FetchedNoBars ==
    \/ rates = None
    \/ (rates # Unset /\ rates # None /\ Len(rates.bars) = 0)

\* C7: a cycle whose window has zero bars is given up at once: no key level
\* band is computed from it, no order is sent, and the loop is at its next
\* sleep, the process alive.
C7_EmptyWindowEndsCycleOnly ==
    FetchedNoBars =>
        (pc = "sleep" /\ exc = "" /\ band = Unset /\ submitted = 0)

\* C8: on a non-empty window recent_high is the greatest high, recent_low the
\* least low, key_level their midpoint, and recent_low <= key_level <=
\* recent_high.
C8_KeyLevelBand ==
    (pc = "detected" /\ Len(data) > 0) =>
        /\ \E k \in 1..Len(data) : data[k].high = band.recent_high
        /\ \A k \in 1..Len(data) : data[k].high <= band.recent_high
        /\ \E k \in 1..Len(data) : data[k].low = band.recent_low
        /\ \A k \in 1..Len(data) : data[k].low >= band.recent_low
        /\ 2 * band.key_level = band.recent_high + band.recent_low
        /\ band.recent_low <= band.key_level
        /\ band.key_level <= band.recent_high

\* The extremes are not those of the first bar and the key level lies
\* strictly between them.
C8_Witness ==
    /\ pc = "detected"
    /\ Len(data) >= 2
    /\ band.recent_high > data[1].high
    /\ band.recent_low < data[1].low
    /\ band.recent_low < band.key_level
    /\ band.key_level < band.recent_high

\* C9: an order sent is priced at the tick read by the call, the ask for a
\* buy and the bid for a sell, with the stop loss and the take profit on
\* opposite sides of it: below and above for a buy, above and below for a
\* sell.
C9_ProtectivePricesSides ==
    OrderSent =>
        IF last.order_type = "buy"
        THEN /\ last.out.request.price = last.tick.ask
             /\ last.out.request.sl < last.out.request.price
             /\ last.out.request.price < last.out.request.tp
        ELSE /\ last.out.request.price = last.tick.bid
             /\ last.out.request.tp < last.out.request.price
             /\ last.out.request.price < last.out.request.sl

\* A sell order sent at a bid that is not its signal's trigger price.
C9_Witness ==
    /\ OrderSent
    /\ last.order_type = "sell"
    /\ last.out.request.price # last.signal.price
    /\ last.out.request.price = last.tick.bid

\* The signal the running for-loop is at.
CurrentSignal == IF pc = "buy" THEN buy_signals[i] ELSE sell_signals[i]

\* C10: a signal of a bar the venue has already received an order for is
\* handled like any other: place_order is called for it, and when the venue
\* answers the call sends one more order for that bar.
C10_TradedBarOrderedAgain ==
    [][(CallReturns /\ CurrentSignal.time \in traded)
        => (/\ last'.called
            /\ last'.signal = CurrentSignal
            /\ last'.order_type = pc
            /\ (last'.symbol_info # None =>
                    /\ submitted' = submitted + 1
                    /\ last'.out.request # None))]_vars

\* A second order has gone out for a bar that had one in an earlier cycle.
C10_Witness ==
    /\ last.called
    /\ last.retraded
    /\ last.out.sends = 1
    /\ last.signal.time \in traded

=============================================================================
